---- MODULE Spec2Model ----
(***************************************************************************)
(* Model of src/transforms.py: paired (image, target) transforms for a     *)
(* Faster R-CNN detector, chained by Compose.                               *)
(*                                                                         *)
(* Python values are modelled as tagged records: a list is                  *)
(* [type |-> "list", items |-> <<...>>], a dict is a record with            *)
(* type |-> "dict" and one field per key.  Box coordinates live in a        *)
(* float32 tensor; a coordinate is an integer count of 2^-FracBits pixels   *)
(* and every tensor store and tensor subtraction rounds to the 24-bit       *)
(* significand of float32 (round to nearest, ties to even).                 *)
(***************************************************************************)
EXTENDS Integers, Sequences, FiniteSets, TLC

VARIABLES transforms, image, target, idx, pc, log, input

vars == <<transforms, image, target, idx, pc, log, input>>

(* ------------------------------ bounds --------------------------------- *)

\* Longest Compose list.
MaxUnits == 3
\* Probabilities and draws are multiples of 1/PUnit.
PUnit == 2
\* Coordinates are multiples of 2^-FracBits pixels.
FracBits == 20

(* --------------------------- float32 tensors --------------------------- *)

\* Significand width of torch.float32, the dtype of torch.Tensor(boxes).
MantissaBits == 24

Unit == 2 ^ FracBits

Px(n) == n * Unit

Abs(v) == IF v < 0 THEN 0 - v ELSE v

\* Spacing of float32 values around magnitude a (in coordinate units).
RECURSIVE Quantum(_)
Quantum(a) == IF a < 2 ^ MantissaBits THEN 1 ELSE 2 * Quantum(a \div 2)

\* Nearest float32 value, ties to even.
RoundToFloat32(v) ==
    LET a  == Abs(v)
        q  == Quantum(a)
        lo == (a \div q) * q
        r  == a - lo
        up == IF 2 * r < q THEN FALSE
              ELSE IF 2 * r > q THEN TRUE
              ELSE (lo \div q) % 2 = 1
        m  == IF up THEN lo + q ELSE lo
    IN  IF v < 0 THEN 0 - m ELSE m

\* scalar - tensor element, as in `width - bbox[:, [2, 0]]`.
TensorRSub(scalar, x) == RoundToFloat32(RoundToFloat32(Px(scalar)) - x)

(* ----------------------------- Python values --------------------------- *)

PyList(items) == [type |-> "list", items |-> items]

IsList(v) == v.type = "list"

HasKey(d, k) == k \in DOMAIN d

Returned(im, tg) == [status |-> "ok", image |-> im, target |-> tg]

Raised(im, tg) == [status |-> "raised", image |-> im, target |-> tg]

(* ------------------------------ fixtures ------------------------------- *)

Annotation(bbox, category_id, image_id) ==
    [type |-> "dict", bbox |-> bbox, category_id |-> category_id,
     image_id |-> image_id]

A1 == Annotation(<<Px(10), Px(5), Px(20), Px(10)>>, 1, 7)
\* fractional coordinates: [1+e, 2+e, 4, 6+e] with e = 2^-FracBits
A2 == Annotation(<<Px(1) + 1, Px(2) + 1, Px(3) - 1, Px(4)>>, 2, 7)
\* min_x = 33+e is not a float32 value; another image_id
A3 == Annotation(<<Px(33) + 1, 0, Px(2), Px(2)>>, 1, 8)
\* negative width
A4 == Annotation(<<Px(5), Px(5), 0 - Px(2), Px(3)>>, 3, 7)

RawTargets ==
    { PyList(<<>>), PyList(<<A1>>), PyList(<<A4>>),
      PyList(<<A1, A2>>), PyList(<<A2, A3>>), PyList(<<A3, A1, A2>>),
      A1, A2 }

PILImage(w, h) ==
    [form |-> "PIL", width |-> w, height |-> h,
     hflipped |-> FALSE, vflipped |-> FALSE, gray |-> FALSE]

Images == { PILImage(64, 32) }

Probs == {0, PUnit \div 2, PUnit}

Draws == 0 .. (PUnit - 1)

Units ==
    {[kind |-> "ToFRCNNFormat"], [kind |-> "RandomGrayscale"], [kind |-> "ToTensor"]}
    \cup {[kind |-> k, p |-> p] :
            k \in {"RandomHorizontalFlip", "RandomVerticalFlip"}, p \in Probs}

UnitLists == UNION {[1 .. n -> Units] : n \in 0 .. MaxUnits}

(* ------------------------------ transforms ----------------------------- *)

\* F.hflip / F.vflip / F.to_tensor / grayscale: the image is opaque, only
\* its size, orientation and encoding are tracked.
HFlipImage(im) == [im EXCEPT !.hflipped = ~@]

VFlipImage(im) == [im EXCEPT !.vflipped = ~@]

GrayImage(im) == [im EXCEPT !.gray = TRUE]

TensorImage(im) == [im EXCEPT !.form = "tensor"]

\* Mutant: the box keeps [x, y, width, height].
BoxOfKeepsSize(annotation) ==
    LET b == annotation.bbox
    IN  <<RoundToFloat32(b[1]), RoundToFloat32(b[2]),
          RoundToFloat32(b[3]), RoundToFloat32(b[4])>>

\* box = [min_x, min_y, min_x + width, min_y + height], stored as float32.
\* The Python additions are exact for the fixture values (far below 2^53).
BoxOf(annotation) ==
    LET b == annotation.bbox
    IN  <<RoundToFloat32(b[1]), RoundToFloat32(b[2]),
          RoundToFloat32(b[1] + b[3]), RoundToFloat32(b[2] + b[4])>>

\* Mutant: list(target) instead of [target], the list of the dict's keys.
WrapKeys(tg) == IF ~IsList(tg) THEN PyList(<<[type |-> "str"]>>) ELSE tg

\* The list ToFRCNNFormat iterates over: a non-list target is wrapped.
Wrap(tg) == IF ~IsList(tg) THEN PyList(<<tg>>) ELSE tg

\* The image_id tensor: read from target[0] only.
ImageIdOf(items) == <<items[1].image_id>>

ToFRCNNFormat(im, tg) ==
    LET items == Wrap(tg).items
    IN  IF Len(items) = 0 THEN Raised(im, tg)                  \* target[0]: IndexError
        ELSE IF ~HasKey(items[1], "image_id") THEN Raised(im, tg)
        ELSE IF \E i \in 1 .. Len(items) :
                    ~HasKey(items[i], "bbox") \/ ~HasKey(items[i], "category_id")
             THEN Raised(im, tg)                               \* KeyError
        ELSE Returned(im,
                      [type     |-> "dict",
                       boxes    |-> [i \in 1 .. Len(items) |-> BoxOf(items[i])],
                       labels   |-> [i \in 1 .. Len(items) |-> items[i].category_id],
                       image_id |-> ImageIdOf(items)])

\* Mutant: column 2 is computed from the already overwritten column 0.
HFlipBoxInPlace(width, b) ==
    <<TensorRSub(width, b[3]), b[2],
      TensorRSub(width, TensorRSub(width, b[3])), b[4]>>

\* Mutant: the columns are mirrored but not swapped.
HFlipBoxNoSwap(width, b) ==
    <<TensorRSub(width, b[1]), b[2], TensorRSub(width, b[3]), b[4]>>

\* bbox[:, [0, 2]] = width - bbox[:, [2, 0]]: the right-hand side is a copy.
HFlipBox(width, b) == <<TensorRSub(width, b[3]), b[2], TensorRSub(width, b[1]), b[4]>>

\* Mutant: column 3 is computed from the already overwritten column 1.
VFlipBoxInPlace(height, b) ==
    <<b[1], TensorRSub(height, b[4]),
      b[3], TensorRSub(height, TensorRSub(height, b[4]))>>

\* bbox[:, [1, 3]] = height - bbox[:, [3, 1]]
VFlipBox(height, b) == <<b[1], TensorRSub(height, b[4]), b[3], TensorRSub(height, b[2])>>

\* Mutant: a draw equal to p flips.
SkipsAbove(draw, p) == draw > p

\* The flip is skipped when random.random() >= self.p.
Skips(draw, p) == draw >= p

\* Reading target["boxes"] fails on a list and on a dict without the key;
\* `image.size` of a tensor does not unpack.
FlipFails(im, tg) == im.form # "PIL" \/ IsList(tg) \/ ~HasKey(tg, "boxes")

RandomHorizontalFlip(p, draw, im, tg) ==
    IF Skips(draw, p) THEN Returned(im, tg)
    ELSE IF FlipFails(im, tg) THEN Raised(im, tg)
    ELSE LET flipped_image == HFlipImage(im)
             width == flipped_image.width
         IN  Returned(flipped_image,
                      [tg EXCEPT !.boxes =
                           [i \in 1 .. Len(tg.boxes) |-> HFlipBox(width, tg.boxes[i])]])

\* Mutant: the boxes are remapped with the image's width.
RandomVerticalFlipByWidth(p, draw, im, tg) ==
    IF Skips(draw, p) THEN Returned(im, tg)
    ELSE IF FlipFails(im, tg) THEN Raised(im, tg)
    ELSE Returned(VFlipImage(im),
                  [tg EXCEPT !.boxes =
                       [i \in 1 .. Len(tg.boxes) |-> VFlipBox(im.width, tg.boxes[i])]])

RandomVerticalFlip(p, draw, im, tg) ==
    IF Skips(draw, p) THEN Returned(im, tg)
    ELSE IF FlipFails(im, tg) THEN Raised(im, tg)
    ELSE LET flipped_image == VFlipImage(im)
             height == im.height
         IN  Returned(flipped_image,
                      [tg EXCEPT !.boxes =
                           [i \in 1 .. Len(tg.boxes) |-> VFlipBox(height, tg.boxes[i])]])

\* The inherited transform decides by itself whether to convert (`convert`);
\* whether it accepts a tensor image depends on the torchvision release
\* (`accepts`).
RandomGrayscale(convert, accepts, im, tg) ==
    IF im.form # "PIL" /\ ~accepts THEN Raised(im, tg)
    ELSE Returned(IF convert THEN GrayImage(im) ELSE im, tg)

\* Mutant: the target is converted along with the image and its fields lost.
ToTensorOfTarget(im, tg) ==
    IF im.form # "PIL" THEN Raised(im, tg)
    ELSE Returned(TensorImage(im), [type |-> "tensor"])

\* F.to_tensor rejects an image that is already a tensor.
ToTensor(im, tg) ==
    IF im.form # "PIL" THEN Raised(im, tg)
    ELSE Returned(TensorImage(im), tg)

(* ------------------------------- Compose ------------------------------- *)

Init ==
    /\ transforms \in UnitLists
    /\ image \in Images
    /\ target \in RawTargets
    /\ idx = 1
    /\ pc = "loop"
    /\ log = <<>>
    /\ input = [image |-> image, target |-> target]

AtUnit(kind) ==
    /\ pc = "loop"
    /\ idx <= Len(transforms)
    /\ transforms[idx].kind = kind

\* Mutant: the returned pair is not bound back to image and target.
ThreadUnbound(entry, res) ==
    /\ image' = image
    /\ target' = target
    /\ idx' = IF res.status = "ok" THEN idx + 1 ELSE idx
    /\ pc' = IF res.status = "ok" THEN "loop" ELSE "raised"
    /\ log' = Append(log, entry @@ [unit |-> idx, kind |-> transforms[idx].kind,
                                    before |-> [image |-> image, target |-> target],
                                    res |-> res])
    /\ UNCHANGED <<transforms, input>>

\* image, target = transform(image, target); an exception leaves the loop.
Thread(entry, res) ==
    /\ image' = res.image
    /\ target' = res.target
    /\ idx' = IF res.status = "ok" THEN idx + 1 ELSE idx
    /\ pc' = IF res.status = "ok" THEN "loop" ELSE "raised"
    /\ log' = Append(log, entry @@ [unit |-> idx, kind |-> transforms[idx].kind,
                                    before |-> [image |-> image, target |-> target],
                                    res |-> res])
    /\ UNCHANGED <<transforms, input>>

CallToFRCNNFormat ==
    /\ AtUnit("ToFRCNNFormat")
    /\ Thread(<<>>, ToFRCNNFormat(image, target))

CallRandomHorizontalFlip ==
    /\ AtUnit("RandomHorizontalFlip")
    /\ \E draw \in Draws :
          Thread([draw |-> draw, p |-> transforms[idx].p],
                 RandomHorizontalFlip(transforms[idx].p, draw, image, target))

CallRandomVerticalFlip ==
    /\ AtUnit("RandomVerticalFlip")
    /\ \E draw \in Draws :
          Thread([draw |-> draw, p |-> transforms[idx].p],
                 RandomVerticalFlip(transforms[idx].p, draw, image, target))

CallRandomGrayscale ==
    /\ AtUnit("RandomGrayscale")
    /\ \E convert \in BOOLEAN, accepts \in BOOLEAN :
          Thread([convert |-> convert],
                 RandomGrayscale(convert, accepts, image, target))

CallToTensor ==
    /\ AtUnit("ToTensor")
    /\ Thread(<<>>, ToTensor(image, target))

ComposeReturn ==
    /\ pc = "loop"
    /\ idx > Len(transforms)
    /\ pc' = "done"
    /\ UNCHANGED <<transforms, image, target, idx, log, input>>

Next ==
    \/ CallToFRCNNFormat
    \/ CallRandomHorizontalFlip
    \/ CallRandomVerticalFlip
    \/ CallRandomGrayscale
    \/ CallToTensor
    \/ ComposeReturn

Spec == Init /\ [][Next]_vars

(* ------------------------- reading the call log ------------------------ *)

Calls(kind) == {i \in 1 .. Len(log) : log[i].kind = kind}

FlipCalls == Calls("RandomHorizontalFlip") \cup Calls("RandomVerticalFlip")

\* A target in the normalized form ToFRCNNFormat produces.
IsNormalized(tg) == ~IsList(tg) /\ HasKey(tg, "boxes")

IsAnnotation(tg) == ~IsList(tg) /\ HasKey(tg, "bbox")

\* A flip call that went through the remapping branch.
FlipApplied(e) ==
    /\ e.draw < e.p
    /\ e.res.status = "ok"
    /\ IsNormalized(e.before.target)

\* The call returned the very pair it was given.
PassedThrough(e) ==
    /\ e.res.status = "ok"
    /\ e.res.image = e.before.image
    /\ e.res.target = e.before.target

\* [x, y, x+w, y+h] as a float32 row.
ExpectedBox(a) ==
    <<RoundToFloat32(a.bbox[1]), RoundToFloat32(a.bbox[2]),
      RoundToFloat32(a.bbox[1] + a.bbox[3]), RoundToFloat32(a.bbox[2] + a.bbox[4])>>

\* size - x in float32, and whether that subtraction is exact.
Mirror(size, x) == RoundToFloat32(Px(size) - x)

ExactMirror(size, x) == Mirror(size, x) = Px(size) - x

SameButBoxes(t1, t2) ==
    /\ t1.labels = t2.labels
    /\ t1.image_id = t2.image_id
    /\ Len(t1.boxes) = Len(t2.boxes)

(* -------------------------------- C1 ----------------------------------- *)

\* C1: ToFRCNNFormat on a list of N >= 1 annotations returns the image
\* unchanged, N boxes and N labels in input order, boxes[i] the float32 row
\* [x, y, x+w, y+h] of the i-th annotation, labels[i] its category_id, and
\* image_id the length-1 sequence holding the first annotation's image_id.
C1_Normalizes ==
    \A c \in Calls("ToFRCNNFormat") :
        LET e == log[c]
            anns == e.before.target.items
            out == e.res.target
        IN  (IsList(e.before.target) /\ Len(e.before.target.items) >= 1) =>
              /\ e.res.status = "ok"
              /\ e.res.image = e.before.image
              /\ Len(out.boxes) = Len(anns)
              /\ Len(out.labels) = Len(anns)
              /\ \A i \in 1 .. Len(anns) :
                    /\ out.boxes[i] = ExpectedBox(anns[i])
                    /\ out.labels[i] = anns[i].category_id
              /\ out.image_id = <<anns[1].image_id>>

\* Three annotations normalized, the first one's image_id differing from
\* another's, and one coordinate rounded by the float32 store.
C1_Witness ==
    \E c \in Calls("ToFRCNNFormat") :
        /\ IsList(log[c].before.target)
        /\ Len(log[c].before.target.items) = 3
        /\ log[c].before.target.items[1].image_id # log[c].before.target.items[2].image_id
        /\ log[c].res.status = "ok"
        /\ Len(log[c].res.target.boxes) = 3
        /\ log[c].res.target.boxes[1][1] # log[c].before.target.items[1].bbox[1]

(* -------------------------------- C2 ----------------------------------- *)

\* C2: an applied RandomHorizontalFlip on an image of width W turns every
\* box [x0, y0, x1, y1] of a normalized target into [W-x1, y0, W-x0, y1]
\* (float32 subtraction, both from the old values), and leaves labels,
\* image_id and the number and order of boxes alone.
C2_HorizontalLaw ==
    \A c \in Calls("RandomHorizontalFlip") :
        LET e == log[c]
            old == e.before.target
            new == e.res.target
            W == e.before.image.width
        IN  FlipApplied(e) =>
              /\ SameButBoxes(new, old)
              /\ \A i \in 1 .. Len(old.boxes) :
                    new.boxes[i] = <<Mirror(W, old.boxes[i][3]), old.boxes[i][2],
                                     Mirror(W, old.boxes[i][1]), old.boxes[i][4]>>
              /\ e.res.image = HFlipImage(e.before.image)

\* An applied horizontal flip of two boxes that are not mirror-symmetric.
C2_Witness ==
    \E c \in Calls("RandomHorizontalFlip") :
        /\ FlipApplied(log[c])
        /\ Len(log[c].before.target.boxes) = 2
        /\ log[c].res.target.boxes[1] # log[c].before.target.boxes[1]
        /\ log[c].res.target.boxes[2] # log[c].before.target.boxes[2]

(* -------------------------------- C3 ----------------------------------- *)

\* C3: an applied RandomVerticalFlip on an image of height H turns every
\* box [x0, y0, x1, y1] into [x0, H-y1, x1, H-y0], using the height, and
\* leaves the x coordinates, labels, image_id and the boxes' number and
\* order alone.
C3_VerticalLaw ==
    \A c \in Calls("RandomVerticalFlip") :
        LET e == log[c]
            old == e.before.target
            new == e.res.target
            H == e.before.image.height
        IN  FlipApplied(e) =>
              /\ SameButBoxes(new, old)
              /\ \A i \in 1 .. Len(old.boxes) :
                    new.boxes[i] = <<old.boxes[i][1], Mirror(H, old.boxes[i][4]),
                                     old.boxes[i][3], Mirror(H, old.boxes[i][2])>>
              /\ e.res.image = VFlipImage(e.before.image)

\* An applied vertical flip on an image whose height differs from its width.
C3_Witness ==
    \E c \in Calls("RandomVerticalFlip") :
        /\ FlipApplied(log[c])
        /\ log[c].before.image.height # log[c].before.image.width
        /\ Len(log[c].before.target.boxes) = 2
        /\ log[c].res.target.boxes[1] # log[c].before.target.boxes[1]

(* -------------------------------- C4 ----------------------------------- *)

\* C4: a flip call passes its input through unchanged exactly when the
\* draw is not below p; on a normalized target and a PIL image it flips
\* exactly when the draw is below p.  So a draw equal to p passes through,
\* p = 0 never flips and p = 1 always does.
C4_DrawDecides ==
    \A c \in FlipCalls :
        LET e == log[c]
            flipped == /\ e.res.status = "ok"
                       /\ e.res.image # e.before.image
        IN  /\ (e.draw >= e.p) => PassedThrough(e)
            /\ (e.draw < e.p) => ~PassedThrough(e)
            /\ (IsNormalized(e.before.target) /\ e.before.image.form = "PIL") =>
                  /\ flipped <=> (e.draw < e.p)
                  /\ (e.p = 0) => ~flipped
                  /\ (e.p = PUnit) => flipped

\* A draw equal to a p strictly between 0 and 1 passed a normalized target
\* through, after a draw just below the same p flipped it.
C4_Witness ==
    \E c \in FlipCalls, d \in FlipCalls :
        /\ c < d
        /\ log[c].p = log[d].p
        /\ log[c].p > 0 /\ log[c].p < PUnit
        /\ log[c].draw = log[c].p - 1
        /\ FlipApplied(log[c])
        /\ log[d].draw = log[d].p
        /\ IsNormalized(log[d].before.target)
        /\ PassedThrough(log[d])

(* -------------------------------- C5 ----------------------------------- *)

NormalizedInput == ToFRCNNFormat(input.image, input.target).target

ForcedFlipPipeline ==
    <<[kind |-> "ToFRCNNFormat"],
      [kind |-> "RandomHorizontalFlip", p |-> PUnit],
      [kind |-> "ToTensor"]>>

\* C5: Compose calls the units once each in list order, gives each unit
\* the pair the previous one returned (the first the input pair), and
\* returns the last unit's pair; an empty list returns the input pair.
\* ToFRCNNFormat, forced RandomHorizontalFlip, ToTensor returns a tensor
\* image, the normalized boxes flipped per the horizontal law and the
\* labels and image_id of the normalization.
C5_Threads ==
    /\ \A i \in 1 .. Len(log) :
          /\ log[i].unit = i
          /\ log[i].kind = transforms[i].kind
          /\ log[i].before = (IF i = 1 THEN input
                              ELSE [image |-> log[i - 1].res.image,
                                    target |-> log[i - 1].res.target])
          /\ (i < Len(log)) => log[i].res.status = "ok"
    /\ (pc = "loop") => Len(log) = idx - 1
    /\ (Len(log) > 0) =>
          /\ image = log[Len(log)].res.image
          /\ target = log[Len(log)].res.target
    /\ (pc = "done") =>
          /\ Len(log) = Len(transforms)
          /\ (transforms = <<>>) => (image = input.image /\ target = input.target)
          /\ (transforms = ForcedFlipPipeline) =>
                /\ image.form = "tensor"
                /\ SameButBoxes(target, NormalizedInput)
                /\ \A i \in 1 .. Len(target.boxes) :
                      LET b == NormalizedInput.boxes[i]
                      IN  target.boxes[i] =
                            <<Mirror(input.image.width, b[3]), b[2],
                              Mirror(input.image.width, b[1]), b[4]>>

\* The three-unit pipeline has returned for a two-annotation input.
C5_Witness ==
    /\ pc = "done"
    /\ transforms = ForcedFlipPipeline
    /\ Len(target.boxes) = 2
    /\ target.boxes # NormalizedInput.boxes

(* -------------------------------- C6 ----------------------------------- *)

\* C6: ToFRCNNFormat on an empty annotation list is not rejected and
\* returns zero-length boxes and labels.
C6_EmptyAccepted ==
    \A c \in Calls("ToFRCNNFormat") :
        (IsList(log[c].before.target) /\ Len(log[c].before.target.items) = 0) =>
            /\ log[c].res.status = "ok"
            /\ Len(log[c].res.target.boxes) = 0
            /\ Len(log[c].res.target.labels) = 0

(* -------------------------------- C7 ----------------------------------- *)

SameFlipTwice(i) ==
    /\ i + 1 <= Len(log)
    /\ log[i].kind \in {"RandomHorizontalFlip", "RandomVerticalFlip"}
    /\ log[i + 1].kind = log[i].kind
    /\ FlipApplied(log[i])
    /\ FlipApplied(log[i + 1])

\* Every subtraction of the flip logged at i is exact in float32.
FlipIsExact(i) ==
    LET im == log[i].before.image
        hor == log[i].kind = "RandomHorizontalFlip"
        size == IF hor THEN im.width ELSE im.height
    IN  \A k \in 1 .. Len(log[i].before.target.boxes) :
            LET b == log[i].before.target.boxes[k]
            IN  /\ ExactMirror(size, IF hor THEN b[1] ELSE b[2])
                /\ ExactMirror(size, IF hor THEN b[3] ELSE b[4])

\* C7 as stated: two applied flips of the same kind in a row return every
\* box to its original coordinates, for every normalized target.
C7_DoubleFlipRestores ==
    \A i \in 1 .. Len(log) :
        SameFlipTwice(i) => log[i + 1].res.target.boxes = log[i].before.target.boxes

\* C7 amended: two applied flips of the same kind in a row return every
\* box to its original coordinates whenever the first flip's float32
\* subtractions are exact (as they are for whole-pixel coordinates).
C7_DoubleFlipRestoresExact ==
    \A i \in 1 .. Len(log) :
        (SameFlipTwice(i) /\ FlipIsExact(i)) =>
            log[i + 1].res.target.boxes = log[i].before.target.boxes

\* Two applied flips in a row, exact, that moved the boxes and brought
\* them back.
C7_Witness ==
    \E i \in 1 .. Len(log) :
        /\ SameFlipTwice(i)
        /\ FlipIsExact(i)
        /\ log[i].res.target.boxes # log[i].before.target.boxes
        /\ log[i + 1].res.target.boxes = log[i].before.target.boxes

(* -------------------------------- C8 ----------------------------------- *)

\* C8: RandomGrayscale and ToTensor return the target they received,
\* converted or not; only the image may differ.
C8_TargetUntouched ==
    \A c \in Calls("RandomGrayscale") \cup Calls("ToTensor") :
        /\ log[c].res.target = log[c].before.target
        /\ (log[c].kind = "RandomGrayscale" /\ log[c].res.status = "ok") =>
              log[c].res.image =
                 (IF log[c].convert THEN GrayImage(log[c].before.image)
                  ELSE log[c].before.image)

\* A converting RandomGrayscale and a ToTensor both ran on a normalized
\* target and changed the image.
C8_Witness ==
    \E c \in Calls("RandomGrayscale"), d \in Calls("ToTensor") :
        /\ log[c].convert
        /\ log[c].res.status = "ok"
        /\ log[c].res.image # log[c].before.image
        /\ IsNormalized(log[c].before.target)
        /\ log[d].res.status = "ok"
        /\ log[d].res.image # log[d].before.image
        /\ IsNormalized(log[d].before.target)

(* -------------------------------- C9 ----------------------------------- *)

\* C9: ToFRCNNFormat on a single annotation that is not in a list returns
\* what it returns on the one-element list holding that annotation.
C9_SingleAsList ==
    \A c \in Calls("ToFRCNNFormat") :
        LET e == log[c]
            listed == ToFRCNNFormat(e.before.image, PyList(<<e.before.target>>))
        IN  IsAnnotation(e.before.target) =>
              /\ e.res.status = listed.status
              /\ e.res.image = listed.image
              /\ e.res.target = listed.target
              /\ e.res.status = "ok"
              /\ e.res.target.boxes = <<ExpectedBox(e.before.target)>>
              /\ e.res.target.labels = <<e.before.target.category_id>>
              /\ e.res.target.image_id = <<e.before.target.image_id>>

\* A bare annotation was normalized.
C9_Witness ==
    \E c \in Calls("ToFRCNNFormat") :
        /\ IsAnnotation(log[c].before.target)
        /\ log[c].res.status = "ok"
        /\ Len(log[c].res.target.boxes) = 1

(* -------------------------------- C10 ---------------------------------- *)

InputAnnotations == Wrap(input.target).items

ValidInput ==
    \A k \in 1 .. Len(InputAnnotations) :
        /\ InputAnnotations[k].bbox[3] >= 0
        /\ InputAnnotations[k].bbox[4] >= 0

Ordered(tg) ==
    /\ Len(tg.boxes) = Len(tg.labels)
    /\ \A k \in 1 .. Len(tg.boxes) :
          /\ tg.boxes[k][3] >= tg.boxes[k][1]
          /\ tg.boxes[k][4] >= tg.boxes[k][2]

SameExtent(b1, b2) ==
    /\ b1[3] - b1[1] = b2[3] - b2[1]
    /\ b1[4] - b1[2] = b2[4] - b2[2]

KeepsExtents(e) ==
    \A k \in 1 .. Len(e.before.target.boxes) :
        SameExtent(e.res.target.boxes[k], e.before.target.boxes[k])

\* C10 as stated: for annotations of non-negative width and height, from
\* ToFRCNNFormat on every box has max >= min on both axes and boxes and
\* labels have one length, and the flips preserve every box's width and
\* height.
C10_OrderedAndRigid ==
    ValidInput =>
        /\ IsNormalized(target) => Ordered(target)
        /\ \A c \in FlipCalls : FlipApplied(log[c]) => KeepsExtents(log[c])

\* C10 amended: the same, the flips preserving width and height whenever
\* their float32 subtractions are exact (as for whole-pixel coordinates).
C10_OrderedAndRigidExact ==
    ValidInput =>
        /\ IsNormalized(target) => Ordered(target)
        /\ \A c \in 1 .. Len(log) :
              IsNormalized(log[c].res.target) => Ordered(log[c].res.target)
        /\ \A c \in FlipCalls :
              (FlipApplied(log[c]) /\ FlipIsExact(c)) => KeepsExtents(log[c])

\* A valid input went through an applied horizontal and an applied
\* vertical flip; the first was exact and moved a box of positive width.
C10_Witness ==
    /\ ValidInput
    /\ IsNormalized(target)
    /\ \E c \in Calls("RandomHorizontalFlip"), d \in Calls("RandomVerticalFlip") :
          /\ FlipApplied(log[c])
          /\ FlipApplied(log[d])
          /\ FlipIsExact(c)
          /\ log[c].res.target.boxes[1] # log[c].before.target.boxes[1]
          /\ log[c].res.target.boxes[1][3] > log[c].res.target.boxes[1][1]

====
